---------------------------- MODULE Spec2Model ----------------------------
(***************************************************************************)
(* Model of limpeza_dados.py: the text cleaning grammar (limpar_texto and  *)
(* its helpers), the single-column reshaper                                *)
(* (expandir_coluna_csv_embutido), the numeric coercion                    *)
(* (tentar_converter_numerico) and the orchestration (processar_arquivo,   *)
(* main).                                                                  *)
(*                                                                         *)
(* A text is a sequence of characters, each character a token.  ASCII      *)
(* characters are their own one-letter token; the few non-ASCII characters *)
(* of the model carry their code point as name:                            *)
(*   U00C3 = A-tilde, U00C2 = A-circumflex, U00A9 = copyright sign,        *)
(*   U00E9 = e-acute, U0301/U0302/U0303 = combining acute/circumflex/tilde,*)
(*   U0663 = ARABIC-INDIC DIGIT THREE (category Nd, matched by \d),        *)
(*   U9A69 = a CJK ideograph (what the bytes E9 A9 A9 decode to).          *)
(***************************************************************************)
EXTENDS Integers, Sequences, FiniteSets, TLC

VARIABLES
    \* processar_arquivo under main: the command line, the two files, the
    \* position in the code, the table, the context, the exception raised,
    \* the exit code, the table written
    argc, entrada, saida, tie, pc, df, contexto, erro, codigo, gravado,
    \* limpar_texto applied once and twice to one value
    nValor, nCtx, nCol, nFase, nRep, nAcc, nY, nZ,
    \* expandir_coluna_csv_embutido applied to one table
    rDf, rFase, rRes,
    \* one column cleaned and converted
    cCol, cCtx, cNome, cTie, cFase, cLimpa, cRes

procVars == <<argc, entrada, saida, tie, pc, df, contexto, erro, codigo, gravado>>
normVars == <<nValor, nCtx, nCol, nFase, nRep, nAcc, nY, nZ>>
reshVars == <<rDf, rFase, rRes>>
coerVars == <<cCol, cCtx, cNome, cTie, cFase, cLimpa, cRes>>

vars == <<procVars, normVars, reshVars, coerVars>>

---------------------------------------------------------------------------
(* Characters and the classes the regular expressions of the source name. *)

LowerCh == {"a", "b", "c", "e", "f", "o", "p", "r", "s", "x"}
UpperCh == {"A", "B", "C", "F", "P", "X"}
LetterCh == LowerCh \cup UpperCh
Digit09 == {"0", "1", "2", "3", "4", "5", "6", "7", "8", "9"}
UniDigitCh == {"U0663"}
\* \d of a str pattern: every Unicode decimal digit, not only 0-9
DigitCh == Digit09 \cup UniDigitCh
\* \s
WhiteCh == {" "}
\* category Mn
MarkCh == {"U0301", "U0302", "U0303"}
XCh == {"x", "X"}
NewlineCh == {"\n"}

DigitSeq == <<"0", "1", "2", "3", "4", "5", "6", "7", "8", "9">>

DigitVal(c) == CHOOSE d \in 0..9 : DigitSeq[d + 1] = c

\* str.lower() on the letters of the model
LowerOf(c) ==
    CASE c = "A" -> "a"
      [] c = "B" -> "b"
      [] c = "C" -> "c"
      [] c = "F" -> "f"
      [] c = "P" -> "p"
      [] c = "X" -> "x"
      [] OTHER -> c

Lower(s) == [i \in 1..Len(s) |-> LowerOf(s[i])]

Preco == <<"p", "r", "e", "c", "o">>
Produtos == "produtos"
Clientes == "clientes"

---------------------------------------------------------------------------
(* Cell values: null (None / NaN), a text, an int or a float.  A number is *)
(* sign, mantissa and number of fraction digits: (-1)^neg * m / 10^e.      *)

Null == [t |-> "null", s |-> <<>>, neg |-> FALSE, m |-> 0, e |-> 0]
Str(s) == [t |-> "str", s |-> s, neg |-> FALSE, m |-> 0, e |-> 0]
IntNum(neg, m) == [t |-> "int", s |-> <<>>, neg |-> (neg /\ m # 0), m |-> m, e |-> 0]

RECURSIVE Pow10(_)
Pow10(k) == IF k = 0 THEN 1 ELSE 10 * Pow10(k - 1)

\* a float in lowest terms: no trailing zero in the fraction
RECURSIVE FloatNum(_, _, _)
FloatNum(neg, m, e) ==
    IF e > 0 /\ m % 10 = 0 THEN FloatNum(neg, m \div 10, e - 1)
    ELSE [t |-> "float", s |-> <<>>, neg |-> neg, m |-> m, e |-> e]

IsNull(v) == v.t = "null"
IsStr(v) == v.t = "str"
IsNum(v) == v.t \in {"int", "float"}

RECURSIVE NatDigits(_)
NatDigits(n) ==
    IF n < 10 THEN <<DigitSeq[n + 1]>>
    ELSE NatDigits(n \div 10) \o <<DigitSeq[(n % 10) + 1]>>

RECURSIVE PadLeft(_, _)
PadLeft(s, k) == IF Len(s) >= k THEN s ELSE PadLeft(<<"0">> \o s, k)

\* str(valor) of a number: "-3", "2.0", "19.9"
PyStr(v) ==
    LET sign == IF v.neg THEN <<"-">> ELSE <<>>
    IN  CASE v.t = "str" -> v.s
          [] v.t = "int" -> sign \o NatDigits(v.m)
          [] v.t = "float" ->
                sign \o NatDigits(v.m \div Pow10(v.e)) \o <<".">> \o
                (IF v.e = 0 THEN <<"0">>
                 ELSE PadLeft(NatDigits(v.m % Pow10(v.e)), v.e))
          [] OTHER -> <<"n", "a", "n">>

---------------------------------------------------------------------------
(* corrigir_mojibake *)

MojibakeTrigger == {"U00C3", "U00C2", " "}
\* characters above U+00FF: str.encode('latin1') raises
NotLatin1 == MarkCh \cup UniDigitCh \cup {"U9A69"}
ContinuationByte == {"U00A9"}

\* bytes.decode('utf-8') of the latin1 bytes; <<"!">> marks a decode error
RECURSIVE DecodeUtf8(_)
DecodeUtf8(b) ==
    IF b = <<>> THEN <<>>
    ELSE LET c == b[1]
             two == Len(b) >= 2 /\ b[2] \in ContinuationByte
             three == Len(b) >= 3 /\ b[2] \in ContinuationByte
                                  /\ b[3] \in ContinuationByte
             rest(k) == DecodeUtf8(SubSeq(b, k, Len(b)))
             join(h, r) == IF r = <<"!">> THEN r ELSE h \o r
         IN  CASE c = "U00C3" /\ two -> join(<<"U00E9">>, rest(3))
               [] c = "U00C2" /\ two -> join(<<"U00A9">>, rest(3))
               [] c = "U00E9" /\ three -> join(<<"U9A69">>, rest(4))
               [] c \in {"U00C3", "U00C2", "U00E9", "U00A9"} -> <<"!">>
               [] OTHER -> join(<<c>>, rest(2))

MojibakeText(s) ==
    IF \E i \in 1..Len(s) : s[i] \in MojibakeTrigger
    THEN IF \E i \in 1..Len(s) : s[i] \in NotLatin1 THEN s
         ELSE IF DecodeUtf8(s) = <<"!">> THEN s ELSE DecodeUtf8(s)
    ELSE s

corrigir_mojibake(texto) ==
    IF ~IsStr(texto) THEN texto ELSE Str(MojibakeText(texto.s))

(* remover_acentos *)

\* unicodedata.normalize('NFKD', .) of one character
Nfkd(c) ==
    CASE c = "U00E9" -> <<"e", "U0301">>
      [] c = "U00C3" -> <<"A", "U0303">>
      [] c = "U00C2" -> <<"A", "U0302">>
      [] OTHER -> <<c>>

RECURSIVE NfkdText(_)
NfkdText(s) == IF s = <<>> THEN <<>> ELSE Nfkd(s[1]) \o NfkdText(Tail(s))

AcentosText(s) == SelectSeq(NfkdText(s), LAMBDA c : c \notin MarkCh)

remover_acentos(texto) ==
    IF ~IsStr(texto) THEN texto ELSE Str(AcentosText(texto.s))

---------------------------------------------------------------------------
(* The substitutions of limpar_texto, each as re.sub performs it: leftmost, *)
(* non-overlapping matches, scanning on after each match.                  *)

\* re.sub(r'(\d),(\d)', r'\1.\2', texto)
RECURSIVE SubDecimalComma(_)
SubDecimalComma(s) ==
    IF Len(s) < 3 THEN s
    ELSE IF s[1] \in DigitCh /\ s[2] = "," /\ s[3] \in DigitCh
         THEN <<s[1], ".", s[3]>> \o SubDecimalComma(SubSeq(s, 4, Len(s)))
         ELSE <<s[1]>> \o SubDecimalComma(Tail(s))

\* re.sub(r'[^K]+', '', texto)
Keep(s, K) == SelectSeq(s, LAMBDA c : c \in K)

RECURSIVE SkipWhite(_)
SkipWhite(s) ==
    IF s # <<>> /\ s[1] \in WhiteCh THEN SkipWhite(Tail(s)) ELSE s

RECURSIVE RStrip(_)
RStrip(s) ==
    IF s # <<>> /\ s[Len(s)] \in WhiteCh THEN RStrip(SubSeq(s, 1, Len(s) - 1))
    ELSE s

\* str.strip()
Strip(s) == RStrip(SkipWhite(s))

\* re.sub(r'\s+', ' ', texto)
RECURSIVE SubSpaces(_)
SubSpaces(s) ==
    IF s = <<>> THEN <<>>
    ELSE IF s[1] \in WhiteCh THEN <<" ">> \o SubSpaces(SkipWhite(s))
         ELSE <<s[1]>> \o SubSpaces(Tail(s))

\* re.sub(r'(\d)\s*[xX]\s*(\d)', r'\1x\2', texto)
RECURSIVE SubX(_)
SubX(s) ==
    IF s = <<>> THEN <<>>
    ELSE LET r1 == SkipWhite(Tail(s))
             r2 == IF r1 = <<>> THEN <<>> ELSE SkipWhite(Tail(r1))
         IN  IF /\ s[1] \in DigitCh
                /\ r1 # <<>> /\ r1[1] \in XCh
                /\ r2 # <<>> /\ r2[1] \in DigitCh
             THEN <<s[1], "x", r2[1]>> \o SubX(Tail(r2))
             ELSE <<s[1]>> \o SubX(Tail(s))

\* re.sub(r'([A])([B])', r'\1 \2', texto) for two character classes
RECURSIVE SubBoundary(_, _, _)
SubBoundary(s, A, B) ==
    IF Len(s) < 2 THEN s
    ELSE IF s[1] \in A /\ s[2] \in B
         THEN <<s[1], " ", s[2]>> \o SubBoundary(SubSeq(s, 3, Len(s)), A, B)
         ELSE <<s[1]>> \o SubBoundary(Tail(s), A, B)

\* re.sub(r'\s*_\s*', '_', texto)
RECURSIVE SubUnderscore(_)
SubUnderscore(s) ==
    IF s = <<>> THEN <<>>
    ELSE LET r == SkipWhite(s)
         IN  IF r # <<>> /\ r[1] = "_"
             THEN <<"_">> \o SubUnderscore(SkipWhite(Tail(r)))
             ELSE <<s[1]>> \o SubUnderscore(Tail(s))

\* texto.replace("_", " ")
ReplaceUnderscore(s) == [i \in 1..Len(s) |-> IF s[i] = "_" THEN " " ELSE s[i]]

AllIn(s, K) == \A i \in 1..Len(s) : s[i] \in K

\* re.fullmatch(r'\d+[xX]\d+', t)
MatchDims(t) ==
    \E j \in 2..(Len(t) - 1) :
        /\ t[j] \in XCh
        /\ AllIn(SubSeq(t, 1, j - 1), DigitCh)
        /\ AllIn(SubSeq(t, j + 1, Len(t)), DigitCh)

\* re.fullmatch(r'.*_\d+[xX]\d+', texto)
MatchSize(s) ==
    \E i \in 1..Len(s) :
        /\ s[i] = "_"
        /\ \A k \in 1..(i - 1) : s[k] \notin NewlineCh
        /\ MatchDims(SubSeq(s, i + 1, Len(s)))

IsPreco(nome_coluna) == IsStr(nome_coluna) /\ nome_coluna.s # <<>>
                        /\ Lower(nome_coluna.s) = Preco

BranchPreco(s) == Strip(Keep(s, Digit09 \cup {".", "-"}))

BranchTamanho(s) ==
    SubX(Strip(SubSpaces(Keep(s, LetterCh \cup Digit09 \cup {"_", " "}))))

BranchProduto(s) ==
    LET t1 == Keep(ReplaceUnderscore(s), LetterCh \cup Digit09 \cup {" "})
        t2 == Strip(SubSpaces(t1))
        t3 == SubBoundary(t2, LowerCh, UpperCh)
        t4 == SubBoundary(t3, LetterCh, DigitCh)
        t5 == SubBoundary(t4, DigitCh, LetterCh)
    IN  Strip(SubX(t5))

BranchClientes(s) ==
    LET t1 == Keep(SubUnderscore(s), LetterCh \cup Digit09 \cup {"_", " "})
        t2 == Strip(SubSpaces(t1))
        t3 == SubBoundary(t2, LetterCh, DigitCh)
        t4 == SubBoundary(t3, DigitCh, LetterCh)
    IN  Strip(SubUnderscore(t4))

LimparText(s, ctx, nome_coluna) ==
    LET texto == SubDecimalComma(AcentosText(MojibakeText(s)))
    IN  IF ctx = Produtos
        THEN IF IsPreco(nome_coluna) THEN BranchPreco(texto)
             ELSE IF MatchSize(texto) THEN BranchTamanho(texto)
             ELSE BranchProduto(texto)
        ELSE BranchClientes(texto)

\* limpar_texto without its pd.isna guard: a null is stringified like the rest
limpar_texto_sem_isna(valor, ctx, nome_coluna) ==
    Str(LimparText(PyStr(valor), ctx, nome_coluna))

limpar_texto(valor, ctx, nome_coluna) ==
    IF IsNull(valor) THEN valor
    ELSE Str(LimparText(PyStr(valor), ctx, nome_coluna))

---------------------------------------------------------------------------
(* Numbers: pd.to_numeric, Series.round(2) and f"{x:.2f}".                 *)

RECURSIVE DigitsVal(_)
DigitsVal(s) ==
    IF s = <<>> THEN 0
    ELSE 10 * DigitsVal(SubSeq(s, 1, Len(s) - 1)) + DigitVal(s[Len(s)])

\* One text as pd.to_numeric(errors='coerce') reads it: an optional '-',
\* digits with at most one '.', at least one digit; anything else is NaN.
\* The sign of "-0" is kept here; an int64 result drops it (ToNumeric).
ParseNumeric(s) ==
    LET neg == s # <<>> /\ s[1] = "-"
        body == IF neg THEN Tail(s) ELSE s
        dots == {i \in 1..Len(body) : body[i] = "."}
        ok == /\ Cardinality(dots) <= 1
              /\ \A i \in 1..Len(body) : i \in dots \/ body[i] \in Digit09
              /\ Len(body) > Cardinality(dots)
        p == IF dots = {} THEN Len(body) + 1 ELSE CHOOSE i \in dots : TRUE
        ip == SubSeq(body, 1, p - 1)
        fp == SubSeq(body, p + 1, Len(body))
    IN  IF ~ok THEN Null
        ELSE IF dots = {}
             THEN [t |-> "int", s |-> <<>>, neg |-> neg, m |-> DigitsVal(ip), e |-> 0]
             ELSE FloatNum(neg, DigitsVal(ip \o fp), Len(fp))

ParseCell(c) == IF IsStr(c) THEN ParseNumeric(c.s) ELSE c

\* an int64 value as float64
AsFloat(v) == IF v.t = "int" THEN FloatNum(v.neg, v.m, 0) ELSE v

\* pd.to_numeric(serie, errors='coerce'): int64 when every value is an
\* integer, float64 (with NaN) otherwise
ToNumeric(cells) ==
    LET parsed == [i \in 1..Len(cells) |-> ParseCell(cells[i])]
        inteiros == \A i \in 1..Len(cells) : parsed[i].t = "int"
    IN  IF inteiros
        THEN [dtype |-> "int64",
              cells |-> [i \in 1..Len(cells) |-> IntNum(parsed[i].neg, parsed[i].m)]]
        ELSE [dtype |-> "float64",
              cells |-> [i \in 1..Len(cells) |-> AsFloat(parsed[i])]]

\* a rounding that drops the digits after the second decimal
Round2Trunc(v, tieUp) ==
    IF v.t # "float" \/ v.e <= 2 THEN v
    ELSE FloatNum(v.neg, v.m \div Pow10(v.e - 2), 2)

\* Series.round(2) of one value.  A binary float that lies halfway between
\* two hundredths goes to either neighbour, as its representation decides:
\* tieUp says which.
Round2(v, tieUp) ==
    IF v.t # "float" \/ v.e <= 2 THEN v
    ELSE LET unit == Pow10(v.e - 2)
             q == v.m \div unit
             r == v.m % unit
             up == 2 * r > unit \/ (2 * r = unit /\ tieUp)
         IN  FloatNum(v.neg, IF up THEN q + 1 ELSE q, 2)

\* f"{x:.2f}" of a value with at most two fraction digits
Format2(v) ==
    LET cents == v.m * Pow10(2 - v.e)
    IN  (IF v.neg THEN <<"-">> ELSE <<>>) \o NatDigits(cents \div 100)
        \o <<".">> \o PadLeft(NatDigits(cents % 100), 2)

\* .round(2).map(lambda x: f"{x:.2f}" if pd.notna(x) else "")
FormatarPreco(cells, tieUp) ==
    [dtype |-> "object",
     cells |-> [i \in 1..Len(cells) |->
                  IF IsNull(cells[i]) THEN Str(<<>>)
                  ELSE Str(Format2(Round2(cells[i], tieUp)))]]

---------------------------------------------------------------------------
(* tentar_converter_numerico.  A column is its dtype and its cells.        *)

\* str.replace(',', '.', regex=False)
ReplaceComma(s) == [i \in 1..Len(s) |-> IF s[i] = "," THEN "." ELSE s[i]]

\* str.match(r'^-?\d+(\.\d+)?$')
MatchNumerico(s) ==
    LET body == IF s # <<>> /\ s[1] = "-" THEN Tail(s) ELSE s
        dots == {i \in 1..Len(body) : body[i] = "."}
    IN  /\ body # <<>>
        /\ Cardinality(dots) <= 1
        /\ \A i \in 1..Len(body) : i \in dots \/ body[i] \in DigitCh
        /\ \A i \in dots : 1 < i /\ i < Len(body)

\* col.dropna(): the positions of the non-null cells, in order
NaoNulos(cells) == SelectSeq([i \in 1..Len(cells) |-> i], LAMBDA i : ~IsNull(cells[i]))

\* a test that one numeric-looking value is enough
AlgumNumerico(textos) == \E i \in 1..Len(textos) : MatchNumerico(textos[i])

\* padrao_numerico.all()
TodosNumericos(textos) == \A i \in 1..Len(textos) : MatchNumerico(textos[i])

\* .reindex(col.index): the converted values back at their rows, NaN at the
\* rows dropna removed (which makes an int64 column float64)
Reindex(num, idx, n) ==
    LET pos(i) == CHOOSE k \in 1..Len(idx) : idx[k] = i
        cheio == Len(idx) = n
    IN  [dtype |-> IF cheio THEN num.dtype ELSE "float64",
         cells |-> [i \in 1..n |->
                      IF \E k \in 1..Len(idx) : idx[k] = i
                      THEN IF cheio THEN num.cells[pos(i)] ELSE AsFloat(num.cells[pos(i)])
                      ELSE Null]]

tentar_converter_numerico(col, ctx, nome_coluna, tieUp) ==
    IF col.dtype # "object"
    THEN IF ctx = Produtos /\ Lower(nome_coluna.s) = Preco
         THEN FormatarPreco(col.cells, tieUp)
         ELSE col
    ELSE LET idx == NaoNulos(col.cells)
             nao_nulos == [k \in 1..Len(idx) |-> ReplaceComma(PyStr(col.cells[idx[k]]))]
             col_num == Reindex(ToNumeric([k \in 1..Len(idx) |-> Str(nao_nulos[k])]),
                                idx, Len(col.cells))
         IN  IF idx = <<>> THEN col
             ELSE IF TodosNumericos(nao_nulos)
                  THEN IF ctx = Produtos /\ Lower(nome_coluna.s) = Preco
                       THEN FormatarPreco(col_num.cells, tieUp)
                       ELSE col_num
                  ELSE col

---------------------------------------------------------------------------
(* expandir_coluna_csv_embutido.  A table is the column names (texts) and  *)
(* the columns; every column has the same number of cells.                 *)

NLinhas(tab) == Len(tab.cols[1].cells)

\* str.split(',', n): at most n splits from the left, every comma when n < 0
RECURSIVE Split(_, _)
Split(s, n) ==
    LET virgulas == {i \in 1..Len(s) : s[i] = ","}
        p == CHOOSE i \in virgulas : \A j \in virgulas : i <= j
    IN  IF virgulas = {} \/ n = 0 THEN <<s>>
        ELSE <<SubSeq(s, 1, p - 1)>> \o Split(SubSeq(s, p + 1, Len(s)), n - 1)

TemVirgula(s) == \E i \in 1..Len(s) : s[i] = ","

\* Series.str.split(',', n, expand=True): one column per field of the
\* longest row, the shorter rows filled with None; no column for no row
Largura(campos) ==
    IF campos = <<>> THEN 0
    ELSE CHOOSE w \in {Len(campos[i]) : i \in 1..Len(campos)} :
            \A i \in 1..Len(campos) : Len(campos[i]) <= w

Expandido(campos, de, nomes) ==
    [names |-> nomes,
     cols |-> [j \in 1..Largura(campos) |->
                 [dtype |-> "object",
                  cells |-> [i \in 1..(Len(campos) - de + 1) |->
                               IF j <= Len(campos[i + de - 1])
                               THEN Str(campos[i + de - 1][j]) ELSE Null]]]]

SemDf == [names |-> <<>>, cols |-> <<>>]
Retorno(tab) == [erro |-> "", df |-> tab]
Excecao(e) == [erro |-> e, df |-> SemDf]

expandir_coluna_csv_embutido(tab) ==
    IF Len(tab.cols) # 1 THEN Retorno(tab)
    ELSE LET nome_col == PyStr(tab.names[1])
             serie == [i \in 1..NLinhas(tab) |-> PyStr(tab.cols[1].cells[i])]
             partes == Split(nome_col, -1)
             cabecalho == [j \in 1..Len(partes) |-> Str(Strip(partes[j]))]
             dados == [i \in 1..Len(serie) |-> Split(serie[i], Len(cabecalho) - 1)]
             primeiro == IF NLinhas(tab) > 0 THEN serie[1] ELSE <<>>
             temp == [i \in 1..Len(serie) |-> Split(serie[i], -1)]
         IN  IF TemVirgula(nome_col)
             THEN \* dados.columns = cabecalho
                  IF Largura(dados) # Len(cabecalho) THEN Excecao("ValueError")
                  ELSE Retorno(Expandido(dados, 1, cabecalho))
             ELSE IF TemVirgula(primeiro)
                  THEN IF Largura(temp) > 1
                       THEN \* h.strip() of a None that filled up row zero
                            IF Len(temp[1]) < Largura(temp) THEN Excecao("AttributeError")
                            ELSE Retorno(Expandido(temp, 2,
                                   [j \in 1..Len(temp[1]) |-> Str(Strip(temp[1][j]))]))
                       ELSE Retorno(tab)
                  ELSE Retorno(tab)

---------------------------------------------------------------------------
(* Inputs of the cleaning grammar. *)

MaxLen == 3

NormAlphabet == {"a", "B", "1", "x", "_", " ", ",", "-"}

RECURSIVE Texts(_, _)
Texts(A, n) ==
    IF n = 0 THEN {<<>>}
    ELSE LET shorter == Texts(A, n - 1)
         IN  shorter \cup {Append(s, c) : s \in {t \in shorter : Len(t) = n - 1}, c \in A}

\* size tokens and their spaced variants: <prefix>_<digits><sep><digits>
SizePrefixes == {<<>>, <<"c", "a">>, <<"c", "-", "a">>, <<"1", " ", "X", " ", "2">>}
SizeDigits == {<<"1">>, <<"1", "0">>, <<"U0663">>}
SizeSeps == {<<"x">>, <<"X">>, <<" ", "x">>, <<"X", " ">>, <<" ", "X", " ">>}

SizeText(p, d1, sep, d2) == p \o <<"_">> \o d1 \o sep \o d2

SizeTexts ==
    {SizeText(p, d1, sep, d2) :
        p \in SizePrefixes, d1 \in SizeDigits, sep \in SizeSeps, d2 \in SizeDigits}

\* mis-decoded and accented text, camel case, decimal commas
OtherTexts ==
    { <<"c", "a", "f", "U00C3", "U00A9">>, <<"U00E9", " ", "U00C3">>,
      <<"U00C3", " ", "a">>, <<"a", "U0301", " ", "b">>, <<"U00C2", "U00A9">>,
      <<"C", "o", "r", "F", "o", "s", "c", "a">>, <<"a", "B", "1", "x", "2">>,
      <<"1", "9", ",", "9">>, <<"1", ",", "2", ",", "3">>, <<"-", "3">>,
      <<"1", "9", ".", "9", "9", "9">>, <<"U0663", ",", "U0663">> }

NormNumbers ==
    { IntNum(FALSE, 5), IntNum(TRUE, 3), IntNum(FALSE, 0),
      FloatNum(FALSE, 199, 1), FloatNum(FALSE, 2, 0), FloatNum(TRUE, 15, 1) }

NormValues ==
    {Null} \cup NormNumbers
    \cup {Str(s) : s \in Texts(NormAlphabet, MaxLen) \cup SizeTexts \cup OtherTexts}

PrecoMaiusc == <<"P", "r", "e", "c", "o">>

NormInit ==
    /\ nValor \in NormValues
    /\ nCtx \in {Produtos, Clientes}
    /\ nCol \in {Str(Preco), Str(PrecoMaiusc), Str(<<"a">>)}
    /\ nFase = 0
    /\ nRep = Null /\ nAcc = Null /\ nY = Null /\ nZ = Null

NormIdle ==
    /\ nValor = Null /\ nCtx = Clientes /\ nCol = Null /\ nFase = 0
    /\ nRep = Null /\ nAcc = Null /\ nY = Null /\ nZ = Null

\* corrigir_mojibake, remover_acentos and limpar_texto applied to the value
Limpar ==
    /\ nFase = 0
    /\ nFase' = 1
    /\ nRep' = corrigir_mojibake(nValor)
    /\ nAcc' = remover_acentos(nValor)
    /\ nY' = limpar_texto(nValor, nCtx, nCol)
    /\ UNCHANGED <<nValor, nCtx, nCol, nZ, procVars, reshVars, coerVars>>

\* limpar_texto applied to its own result
LimparDeNovo ==
    /\ nFase = 1
    /\ nFase' = 2
    /\ nZ' = limpar_texto(nY, nCtx, nCol)
    /\ UNCHANGED <<nValor, nCtx, nCol, nRep, nAcc, nY, procVars, reshVars, coerVars>>

NormNext == Limpar \/ LimparDeNovo

---------------------------------------------------------------------------
(* Inputs of the reshaper: tables of one column (and one of two).          *)

MaxRows == 2

RECURSIVE Seqs(_, _)
Seqs(S, n) ==
    IF n = 0 THEN {<<>>}
    ELSE LET shorter == Seqs(S, n - 1)
         IN  shorter \cup {Append(q, c) : q \in {t \in shorter : Len(t) = n - 1}, c \in S}

Objeto(cells) == [dtype |-> "object", cells |-> cells]

ReshNames ==
    { <<"a">>, <<"a", ",", "b">>, <<"a", ",", " ", "b">>,
      <<"a", ",", "b", ",", "c">> }

ReshCells ==
    { Null, Str(<<"1">>), Str(<<"1", ",", "2">>), Str(<<"1", ",", "2", ",", "3">>),
      Str(<<"a", ",", " ", "b">>), Str(<<"1", ",", "2", ",", "3", ",", "4">>) }

ReshTables ==
    { [names |-> <<Str(n)>>, cols |-> <<Objeto(c)>>] :
        n \in ReshNames, c \in Seqs(ReshCells, MaxRows) }
    \cup { [names |-> <<Str(<<"a", ",", "b">>), Str(<<"c">>)>>,
            cols |-> <<Objeto(c), Objeto(c)>>] : c \in Seqs(ReshCells, 1) }

ReshInit ==
    /\ rDf \in ReshTables
    /\ rFase = 0
    /\ rRes = Retorno(SemDf)

ReshIdle == rDf = SemDf /\ rFase = 0 /\ rRes = Retorno(SemDf)

Expandir ==
    /\ rFase = 0
    /\ rFase' = 1
    /\ rRes' = expandir_coluna_csv_embutido(rDf)
    /\ UNCHANGED <<rDf, procVars, normVars, coerVars>>

ReshNext == Expandir

---------------------------------------------------------------------------
(* Inputs of the coercion: one column, raw or cleaned first as            *)
(* processar_arquivo cleans the textual columns.                           *)

\* for coluna in df.columns: if ... dtype == object: df[coluna].apply(limpar_texto)
LimparColuna(col, ctx, nome_coluna) ==
    IF col.dtype = "object"
    THEN [dtype |-> "object",
          cells |-> [i \in 1..Len(col.cells) |-> limpar_texto(col.cells[i], ctx, nome_coluna)]]
    ELSE col

CoerCells ==
    { Null, IntNum(FALSE, 7), Str(<<"1">>), Str(<<"2", ".", "5">>), Str(<<"-", "3">>),
      Str(<<"a", "b">>), Str(<<"1", "9", ",", "9">>), Str(<<"1", "9", ".", "9", "9", "9">>),
      Str(<<"1", "-", "2">>), Str(<<"0", ".", "1", "2", "5">>),
      Str(<<"-", "0", ".", "0", "0", "1">>) }

CoerFloats == {Null, FloatNum(FALSE, 19999, 3), FloatNum(FALSE, 2, 0)}
CoerInts == {IntNum(FALSE, 5), IntNum(TRUE, 3)}

CoerColumns ==
    {Objeto(c) : c \in Seqs(CoerCells, MaxRows)}
    \cup {[dtype |-> "float64", cells |-> c] : c \in Seqs(CoerFloats, MaxRows)}
    \cup {[dtype |-> "int64", cells |-> c] : c \in Seqs(CoerInts, MaxRows)}

CoerInit ==
    /\ cCol \in CoerColumns
    /\ cCtx \in {Produtos, Clientes}
    /\ cNome \in {Str(Preco), Str(PrecoMaiusc), Str(<<"a">>)}
    /\ cTie \in BOOLEAN
    /\ cFase = "bruta"
    /\ cLimpa = Objeto(<<>>)
    /\ cRes = Objeto(<<>>)

CoerIdle ==
    /\ cCol = Objeto(<<>>) /\ cCtx = Clientes /\ cNome = Null /\ cTie = FALSE
    /\ cFase = "bruta" /\ cLimpa = Objeto(<<>>) /\ cRes = Objeto(<<>>)

LimparValoresColuna ==
    /\ cFase = "bruta"
    /\ cFase' = "limpa"
    /\ cLimpa' = LimparColuna(cCol, cCtx, cNome)
    /\ UNCHANGED <<cCol, cCtx, cNome, cTie, cRes, procVars, normVars, reshVars>>

\* tentar_converter_numerico on the column as it is
ConverterBruta ==
    /\ cFase = "bruta"
    /\ cFase' = "convertida_bruta"
    /\ cRes' = tentar_converter_numerico(cCol, cCtx, cNome, cTie)
    /\ UNCHANGED <<cCol, cCtx, cNome, cTie, cLimpa, procVars, normVars, reshVars>>

\* tentar_converter_numerico on the cleaned column
ConverterLimpa ==
    /\ cFase = "limpa"
    /\ cFase' = "convertida"
    /\ cRes' = tentar_converter_numerico(cLimpa, cCtx, cNome, cTie)
    /\ UNCHANGED <<cCol, cCtx, cNome, cTie, cLimpa, procVars, normVars, reshVars>>

CoerNext == LimparValoresColuna \/ ConverterBruta \/ ConverterLimpa

---------------------------------------------------------------------------
(* processar_arquivo and main.                                             *)

Extensoes == {"csv", "xlsx", "xls"}

\* novos_nomes: limpar_texto of each name, the name itself when that is ''
NormalizarNomes(t, ctx) ==
    [names |-> [j \in 1..Len(t.names) |->
                  LET nome_limpo == limpar_texto(t.names[j], ctx, t.names[j])
                  IN  IF nome_limpo # Str(<<>>) THEN nome_limpo ELSE t.names[j]],
     cols |-> t.cols]

\* two columns of one name: df[coluna] is a DataFrame, which has no dtype
Duplicado(t) ==
    \E i, j \in 1..Len(t.names) : i # j /\ t.names[i] = t.names[j]

LimparValores(t, ctx) ==
    [names |-> t.names,
     cols |-> [j \in 1..Len(t.cols) |-> LimparColuna(t.cols[j], ctx, t.names[j])]]

ConverterNumericos(t, ctx, tieUp) ==
    [names |-> t.names,
     cols |-> [j \in 1..Len(t.cols) |->
                 tentar_converter_numerico(t.cols[j], ctx, t.names[j], tieUp)]]

ColunasPreco(t) == {j \in 1..Len(t.names) : Lower(t.names[j].s) = Preco}

\* no final pass at all
SemFormatacao(t, ctx, tieUp) == t

\* the final pass on the first column named preco
FormatarColunaPreco(t, ctx, tieUp) ==
    IF ctx = Produtos /\ ColunasPreco(t) # {}
    THEN LET nome_preco == CHOOSE j \in ColunasPreco(t) : \A k \in ColunasPreco(t) : j <= k
         IN  [names |-> t.names,
              cols |-> [j \in 1..Len(t.cols) |->
                          IF j = nome_preco
                          THEN FormatarPreco(ToNumeric(t.cols[j].cells).cells, tieUp)
                          ELSE t.cols[j]]]
    ELSE t

MaxLinhas == 2

ProcHeaders ==
    { <<Str(<<"a">>), Str(Preco)>>, <<Str(PrecoMaiusc), Str(Preco)>>,
      <<Str(<<"a", "_", "b">>), Str(<<"a", " ", "b">>)>>,
      <<Str(<<"a", "B">>), Str(<<"P", "r", "U00E9", "c", "o">>)>> }

ProcTexts == {Null, Str(<<"a", "B">>)}
ProcCells == {Null, Str(<<"1", "9", ",", "9">>), Str(<<"1", "-", "2">>)}
ProcFloats == {Null, FloatNum(FALSE, 19999, 3)}
ProcInts == {IntNum(FALSE, 5)}


ProcTables ==
    { [names |-> h, cols |-> <<Objeto(c1), c2>>] :
        h \in ProcHeaders,
        c1 \in Seqs(ProcTexts, MaxLinhas),
        c2 \in {Objeto(c) : c \in Seqs(ProcCells, MaxLinhas)}
               \cup {[dtype |-> "float64", cells |-> c] : c \in Seqs(ProcFloats, MaxLinhas)}
               \cup {[dtype |-> "int64", cells |-> c] : c \in Seqs(ProcInts, MaxLinhas)} }

\* a spreadsheet whose rows were saved into one column
PlanilhaNames == {<<"a", ",", "p", "r", "e", "c", "o">>, <<"c">>}
PlanilhaCells ==
    { Null, Str(<<"a", ",", "1">>), Str(<<"a", ",", "1", ",", "5">>), Str(<<"b">>) }

Planilhas ==
    { [names |-> <<Str(n)>>, cols |-> <<Objeto(c)>>] :
        n \in PlanilhaNames, c \in Seqs(PlanilhaCells, MaxLinhas) }

Arquivo(existe, ext, leitura, tabela) ==
    [existe |-> existe, ext |-> ext, leitura |-> leitura, tabela |-> tabela]

Tabelas == {t \in ProcTables : Len(t.cols[1].cells) = Len(t.cols[2].cells)}

UmaTabela ==
    [names |-> <<Str(<<"a">>), Str(Preco)>>,
     cols |-> <<Objeto(<<Null>>), Objeto(<<Str(<<"1", "9", ",", "9">>)>>)>>]

ProcInit ==
    /\ \/ /\ argc = 3
          /\ \/ entrada \in {Arquivo(TRUE, "csv", "ok", t) : t \in Tabelas}
             \/ entrada \in {Arquivo(TRUE, "xlsx", "ok", t) : t \in Planilhas}
             \/ entrada \in {Arquivo(ex, ext, l, UmaTabela) :
                                ex \in BOOLEAN, ext \in {"csv", "xls", "txt"},
                                l \in {"ok", "falha"}}
       \/ /\ argc \in {1, 2, 4}
          /\ entrada = Arquivo(TRUE, "csv", "ok", UmaTabela)
    /\ saida \in [ext : {"csv", "xlsx", "txt"}, produtos : BOOLEAN]
    /\ tie \in BOOLEAN
    /\ pc = "main"
    /\ df = SemDf
    /\ contexto = ""
    /\ erro = ""
    /\ codigo = -1
    /\ gravado = SemDf

ProcIdle ==
    /\ argc = 3 /\ entrada = Arquivo(FALSE, "csv", "ok", SemDf)
    /\ saida = [ext |-> "csv", produtos |-> FALSE] /\ tie = FALSE
    /\ pc = "main" /\ df = SemDf /\ contexto = "" /\ erro = "" /\ codigo = -1
    /\ gravado = SemDf

Outros == <<normVars, reshVars, coerVars>>

\* main: the argument count
Main ==
    /\ pc = "main"
    /\ IF argc # 3
       THEN pc' = "saiu" /\ codigo' = 1
       ELSE pc' = "verificar" /\ codigo' = codigo
    /\ UNCHANGED <<argc, entrada, saida, tie, df, contexto, erro, gravado, Outros>>

Levantar(e) == pc' = "excecao" /\ erro' = e

\* os.path.exists(arquivo_entrada)
VerificarEntrada ==
    /\ pc = "verificar"
    /\ IF ~entrada.existe THEN Levantar("FileNotFoundError")
       ELSE pc' = "ler" /\ erro' = erro
    /\ UNCHANGED <<argc, entrada, saida, tie, df, contexto, codigo, gravado, Outros>>

\* read_csv (utf-8, then latin1), or read_excel and expandir_coluna_csv_embutido
LerArquivo ==
    /\ pc = "ler"
    /\ LET r == expandir_coluna_csv_embutido(entrada.tabela)
       IN  CASE entrada.ext \notin Extensoes ->
                    Levantar("ValueError: formato de entrada") /\ df' = df
             [] entrada.ext \in Extensoes /\ entrada.leitura = "falha" ->
                    Levantar("leitura") /\ df' = df
             [] entrada.ext = "csv" /\ entrada.leitura = "ok" ->
                    pc' = "nomes" /\ erro' = erro /\ df' = entrada.tabela
             [] OTHER ->
                    IF r.erro # "" THEN Levantar(r.erro) /\ df' = df
                    ELSE pc' = "nomes" /\ erro' = erro /\ df' = r.df
    /\ UNCHANGED <<argc, entrada, saida, tie, contexto, codigo, gravado, Outros>>

\* the context from the output name, then the column names
LimparNomes ==
    /\ pc = "nomes"
    /\ contexto' = IF saida.produtos THEN Produtos ELSE Clientes
    /\ df' = NormalizarNomes(df, contexto')
    /\ pc' = "valores"
    /\ UNCHANGED <<argc, entrada, saida, tie, erro, codigo, gravado, Outros>>

LimparTabela ==
    /\ pc = "valores"
    /\ IF Duplicado(df) THEN Levantar("AttributeError") /\ df' = df
       ELSE pc' = "converter" /\ erro' = erro /\ df' = LimparValores(df, contexto)
    /\ UNCHANGED <<argc, entrada, saida, tie, contexto, codigo, gravado, Outros>>

ConverterTabela ==
    /\ pc = "converter"
    /\ pc' = "preco"
    /\ df' = ConverterNumericos(df, contexto, tie)
    /\ UNCHANGED <<argc, entrada, saida, tie, contexto, erro, codigo, gravado, Outros>>

FormatarTabela ==
    /\ pc = "preco"
    /\ pc' = "exportar"
    /\ df' = FormatarColunaPreco(df, contexto, tie)
    /\ UNCHANGED <<argc, entrada, saida, tie, contexto, erro, codigo, gravado, Outros>>

\* to_csv / to_excel, or the unsupported output format
Exportar ==
    /\ pc = "exportar"
    /\ IF saida.ext \in Extensoes
       THEN pc' = "gravado" /\ gravado' = df /\ erro' = erro
       ELSE Levantar("ValueError: formato de saida") /\ gravado' = gravado
    /\ UNCHANGED <<argc, entrada, saida, tie, df, contexto, codigo, Outros>>

\* main: success message and exit 0, or the caught exception and exit 1
Sair ==
    /\ pc \in {"gravado", "excecao"}
    /\ pc' = "saiu"
    /\ codigo' = IF pc = "gravado" THEN 0 ELSE 1
    /\ UNCHANGED <<argc, entrada, saida, tie, df, contexto, erro, gravado, Outros>>

ProcNext ==
    \/ Main \/ VerificarEntrada \/ LerArquivo \/ LimparNomes \/ LimparTabela
    \/ ConverterTabela \/ FormatarTabela \/ Exportar \/ Sair

---------------------------------------------------------------------------
(* The specifications. *)

Init == ProcInit /\ NormIdle /\ ReshIdle /\ CoerIdle
Next == ProcNext
Spec == Init /\ [][Next]_vars

InitNorm == NormInit /\ ProcIdle /\ ReshIdle /\ CoerIdle
SpecNorm == InitNorm /\ [][NormNext]_vars

InitReshape == ReshInit /\ ProcIdle /\ NormIdle /\ CoerIdle
SpecReshape == InitReshape /\ [][ReshNext]_vars

InitCoerce == CoerInit /\ ProcIdle /\ NormIdle /\ ReshIdle
SpecCoerce == InitCoerce /\ [][CoerNext]_vars

---------------------------------------------------------------------------
(* What the properties speak of. *)

\* optional hyphen, digits, a dot, exactly two digits
DuasCasas(s) ==
    LET b == IF s # <<>> /\ s[1] = "-" THEN Tail(s) ELSE s
    IN  /\ Len(b) >= 4
        /\ b[Len(b) - 2] = "."
        /\ \A i \in 1..Len(b) : i = Len(b) - 2 \/ b[i] \in Digit09

\* optional hyphen, digits, optional decimal part after one of seps
Numeral(s, seps) ==
    LET b == IF s # <<>> /\ s[1] = "-" THEN Tail(s) ELSE s
        at == {i \in 1..Len(b) : b[i] \in seps}
    IN  /\ b # <<>>
        /\ Cardinality(at) <= 1
        /\ \A i \in 1..Len(b) : i \in at \/ b[i] \in Digit09
        /\ \A i \in at : 1 < i /\ i < Len(b)

\* the digits of a numeral as a signed integer, and its number of decimals
Inteiro(s) ==
    (IF s # <<>> /\ s[1] = "-" THEN -1 ELSE 1) * DigitsVal(Keep(s, Digit09))

Casas(s) ==
    LET at == {i \in 1..Len(s) : s[i] \in {",", "."}}
    IN  IF at = {} THEN 0 ELSE Len(s) - (CHOOSE i \in at : TRUE)

\* the two-decimal text o is within half a hundredth of the numeral s
Perto(s, o) ==
    LET d == Inteiro(o) * Pow10(Casas(s)) * 10 - Inteiro(s) * 1000
    IN  d <= 5 * Pow10(Casas(s)) /\ -d <= 5 * Pow10(Casas(s))

\* the number v is the one the numeral s denotes
Denota(v, s) ==
    /\ IsNum(v)
    /\ v.m * Pow10(Casas(s)) = DigitsVal(Keep(s, Digit09)) * Pow10(v.e)
    /\ (v.m # 0 => (v.neg <=> s[1] = "-"))

Celula(t, j, i) == t.cols[j].cells[i]

---------------------------------------------------------------------------
(* Properties of the cleaning grammar, under SpecNorm. *)

(* C1, as claimed: every non-string input (null, number) comes back       *)
(* unchanged from limpar_texto, corrigir_mojibake and remover_acentos.     *)
C1_NaoTextoIdentidade ==
    (nFase >= 1 /\ ~IsStr(nValor)) =>
        (nY = nValor /\ nRep = nValor /\ nAcc = nValor)

(* C1, amended: corrigir_mojibake and remover_acentos return every        *)
(* non-string input unchanged; limpar_texto returns a null unchanged and   *)
(* turns a number into a text, the cleaning of the number's string form.   *)
C1_NuloIdentidadeNumeroTexto ==
    (nFase >= 1 /\ ~IsStr(nValor)) =>
        /\ nRep = nValor /\ nAcc = nValor
        /\ IsNull(nValor) => nY = nValor
        /\ IsNum(nValor) =>
              /\ IsStr(nY)
              /\ nY.s = LimparText(PyStr(nValor), nCtx, nCol)
              /\ AllIn(nY.s, LetterCh \cup Digit09 \cup {"_", " ", ".", "-"})

C1_Witness ==
    /\ nFase = 1 /\ nValor = FloatNum(FALSE, 199, 1) /\ nCtx = Clientes
    /\ nY = Str(<<"1", "9", "9">>) /\ nRep = nValor /\ nAcc = nValor

(* C2: limpar_texto is idempotent: cleaning its own result changes nothing, *)
(* for every text, context and column name.                                *)
C2_Idempotente == nFase = 2 => nZ = nY

(* C4: in the produtos context and outside the price column, a value       *)
(* <prefix>_<digits><sep><digits>, sep an 'x' or 'X' with spaces or not on *)
(* either side, cleans to <prefix>_<digits>x<digits>.                      *)
C4_TamanhoNormalizado ==
    (nFase >= 1 /\ nCtx = Produtos /\ ~IsPreco(nCol)) =>
        \A p \in {<<>>, <<"c", "a">>}, d1, d2 \in {<<"1">>, <<"1", "0">>}, sep \in SizeSeps :
            nValor = Str(SizeText(p, d1, sep, d2)) =>
                nY = Str(SizeText(p, d1, <<"x">>, d2))

---------------------------------------------------------------------------
(* Properties of processar_arquivo, under Spec. *)

Etapas == {"nomes", "valores", "converter", "preco"}

NulosFicam(excecoes) ==
    (pc \in Etapas /\ pc' \in Etapas \cup {"exportar"}) =>
        \A j \in 1..Len(df.cols) : \A i \in 1..Len(df.cols[j].cells) :
            IsNull(Celula(df, j, i)) =>
                \/ IsNull(Celula(df', j, i))
                \/ /\ excecoes
                   /\ pc \in {"converter", "preco"}
                   /\ contexto = Produtos /\ Lower(df.names[j].s) = Preco
                   /\ Celula(df', j, i) = Str(<<>>)

\* the rows of a spreadsheet after the reshape on loading: the same rows, or
\* one fewer when row zero became the header
NulosNaLeitura(excecoes) ==
    (pc = "ler" /\ pc' = "nomes") =>
        LET t == entrada.tabela
            d == NLinhas(t) - NLinhas(df')
        IN  \A i \in (d + 1)..NLinhas(t) :
                IsNull(Celula(t, 1, i)) =>
                    \/ IsNull(Celula(df', 1, i - d))
                    \/ /\ excecoes
                       /\ df' # t
                       /\ Celula(df', 1, i - d) = Str(<<"n", "a", "n">>)

(* C3, as claimed: a null cell stays null, at its row and column, through *)
(* every stage: reshape, header and value normalization, numeric coercion, *)
(* final price pass.                                                       *)
C3_NuloPreservado == [][NulosFicam(FALSE) /\ NulosNaLeitura(FALSE)]_vars

(* What the stages do to a null cell: it stays null through header         *)
(* normalization, value normalization, numeric coercion and the final      *)
(* price pass, except in a column named preco of the produtos context,     *)
(* where coercion and the final pass render it as the empty string; the    *)
(* reshape, when it splits the single column, stringifies it first, so a   *)
(* null row arrives as the text "nan" in the first new column.             *)
C3_NuloPreservadoSalvoPreco == [][NulosFicam(TRUE) /\ NulosNaLeitura(TRUE)]_vars

CelulasFormatadas(t, j) ==
    \A i \in 1..Len(t.cols[j].cells) :
        /\ IsStr(Celula(t, j, i))
        /\ Celula(t, j, i).s = <<>> \/ DuasCasas(Celula(t, j, i).s)

(* C7, as claimed: in the produtos context, at persist time, every cell of *)
(* a column whose name is preco (case-insensitively) is a fixed            *)
(* two-decimal string for every present value (the empty string standing   *)
(* for an absent one).                                                     *)
C7_PrecoFormatado ==
    (pc = "gravado" /\ contexto = Produtos) =>
        \A j \in ColunasPreco(gravado) : CelulasFormatadas(gravado, j)

(* C7, amended: in the produtos context, at persist time, every cell of    *)
(* the first column whose name is preco (case-insensitively) is a fixed    *)
(* two-decimal string, or the empty string where the value is null or does *)
(* not parse as a number; a later column of that name gets no final pass.  *)
C7_PrimeiroPrecoFormatado ==
    (pc = "gravado" /\ contexto = Produtos) =>
        \A j \in ColunasPreco(gravado) :
            (\A k \in ColunasPreco(gravado) : j <= k) => CelulasFormatadas(gravado, j)

C7_Witness ==
    /\ pc = "gravado" /\ contexto = Produtos /\ entrada.ext = "csv"
    /\ gravado.names = <<Str(<<"a">>), Str(Preco)>>
    /\ entrada.tabela.cols[2] =
          Objeto(<<Str(<<"1", "9", ",", "9">>), Str(<<"1", "-", "2">>)>>)
    /\ gravado.cols[2].cells = <<Str(<<"1", "9", ".", "9", "0">>), Str(<<>>)>>

(* C9: an input or output extension outside csv, xlsx, xls fails before    *)
(* any processing step has run (no table loaded, no context derived), a    *)
(* missing input file fails before any read, and the run ends with exit    *)
(* code 1.                                                                 *)
C9_FalhaAntesDeProcessar ==
    /\ (pc = "excecao" /\ erro \in {"ValueError: formato de entrada",
                                    "ValueError: formato de saida",
                                    "FileNotFoundError"})
          => (df = SemDf /\ contexto = "")
    /\ (pc = "saiu" /\ erro # "") => codigo = 1

---------------------------------------------------------------------------
(* Properties of tentar_converter_numerico, under SpecCoerce. *)

PareceNumero(c) == ~IsNull(c) /\ Numeral(PyStr(c), {",", "."})

TodosParecemNumero(col) ==
    \A i \in 1..Len(col.cells) : IsNull(col.cells[i]) \/ PareceNumero(col.cells[i])

ProdutosPreco == cCtx = Produtos /\ IsPreco(cNome)

(* C5: in the produtos context, in the price column, every numeric-looking *)
(* text cell (optional hyphen, digits, optional decimal part after a comma *)
(* or a dot) comes out of limpar_texto followed by                         *)
(* tentar_converter_numerico as a string with exactly two decimal digits   *)
(* whose value is the input rounded to two decimals, provided every other  *)
(* non-null cell of the column is numeric-looking too.                     *)
C5_PrecoDuasCasas ==
    (/\ cFase = "convertida" /\ ProdutosPreco
     /\ cCol.dtype = "object" /\ TodosParecemNumero(cCol)) =>
        /\ Len(cRes.cells) = Len(cCol.cells)
        /\ \A i \in 1..Len(cCol.cells) :
              IsStr(cCol.cells[i]) =>
                  /\ IsStr(cRes.cells[i])
                  /\ DuasCasas(cRes.cells[i].s)
                  /\ Perto(cCol.cells[i].s, cRes.cells[i].s)

C5_Witness ==
    /\ cFase = "convertida" /\ ProdutosPreco
    /\ cCol = Objeto(<<Str(<<"1", "9", ",", "9">>), Str(<<"1", "9", ".", "9", "9", "9">>)>>)
    /\ cRes.cells = <<Str(<<"1", "9", ".", "9", "0">>), Str(<<"2", "0", ".", "0", "0">>)>>

\* the column tentar_converter_numerico was given
Dada == IF cFase = "convertida_bruta" THEN cCol ELSE cLimpa

Convertida == cFase \in {"convertida_bruta", "convertida"} /\ Dada.dtype = "object"

ViraNumero ==
    /\ cRes.dtype \in {"int64", "float64"}
    /\ Len(cRes.cells) = Len(Dada.cells)
    /\ \A i \in 1..Len(Dada.cells) :
          IF IsNull(Dada.cells[i]) THEN IsNull(cRes.cells[i])
          ELSE Denota(cRes.cells[i], PyStr(Dada.cells[i]))

ViraPreco ==
    /\ cRes.dtype = "object"
    /\ Len(cRes.cells) = Len(Dada.cells)
    /\ \A i \in 1..Len(Dada.cells) :
          IF IsNull(Dada.cells[i]) THEN cRes.cells[i] = Str(<<>>)
          ELSE /\ IsStr(cRes.cells[i])
               /\ DuasCasas(cRes.cells[i].s)
               /\ Perto(PyStr(Dada.cells[i]), cRes.cells[i].s)

---------------------------------------------------------------------------
(* Properties of expandir_coluna_csv_embutido, under SpecReshape. *)

UmaColuna == rFase = 1 /\ Len(rDf.cols) = 1

NomeDado == PyStr(rDf.names[1])

\* the names of the result are these fields, surrounding blanks aside
NomesSao(campos) ==
    /\ Len(rRes.df.names) = Len(campos)
    /\ Len(rRes.df.cols) = Len(campos)
    /\ \A j \in 1..Len(campos) :
          IsStr(rRes.df.names[j]) /\ Strip(rRes.df.names[j].s) = Strip(campos[j])

\* row i of the input, split on at most n commas, is row i - d of the result
LinhaSao(i, n, d) ==
    LET f == Split(PyStr(Celula(rDf, 1, i)), n)
    IN  \A j \in 1..Len(f) :
            j <= Len(rRes.df.cols) => Celula(rRes.df, j, i - d) = Str(f[j])

(* C8: for every one-column table whose column name contains a comma, the  *)
(* result has exactly the comma-separated fields of that name as column    *)
(* names (k of them), the same number of rows in the same order, and each  *)
(* row's value split on at most k-1 commas; this holds for every row       *)
(* content, including rows with fewer than k-1 commas.  (Stated for        *)
(* tables of at least one row.)                                            *)
C8_CabecalhoEmbutido ==
    (UmaColuna /\ TemVirgula(NomeDado) /\ NLinhas(rDf) > 0) =>
        /\ rRes.erro = ""
        /\ NomesSao(Split(NomeDado, -1))
        /\ NLinhas(rRes.df) = NLinhas(rDf)
        /\ \A i \in 1..NLinhas(rDf) :
              IsNull(Celula(rDf, 1, i)) \/ LinhaSao(i, Len(Split(NomeDado, -1)) - 1, 0)

PrimeiraTemVirgula == NLinhas(rDf) > 0 /\ TemVirgula(PyStr(Celula(rDf, 1, 1)))

(* C10: for every one-column table whose column name contains no comma and *)
(* whose first row's value contains one, every row is split on every       *)
(* comma, the fields of row zero become the column names and the remaining *)
(* rows are returned, in order, as data; no such table makes the reshaper  *)
(* raise, whatever the number of fields of the later rows.  A table of     *)
(* more than one column, of zero rows, or with no comma in name and first  *)
(* row is returned unchanged.                                              *)
C10_PrimeiraLinhaCabecalho ==
    /\ (UmaColuna /\ ~TemVirgula(NomeDado) /\ PrimeiraTemVirgula) =>
          /\ rRes.erro = ""
          /\ NomesSao(Split(PyStr(Celula(rDf, 1, 1)), -1))
          /\ NLinhas(rRes.df) = NLinhas(rDf) - 1
          /\ \A i \in 2..NLinhas(rDf) : IsNull(Celula(rDf, 1, i)) \/ LinhaSao(i, -1, 1)
    /\ (rFase = 1 /\ Len(rDf.cols) # 1) => rRes = Retorno(rDf)
    /\ (UmaColuna /\ ~TemVirgula(NomeDado) /\ ~PrimeiraTemVirgula) => rRes = Retorno(rDf)

=============================================================================
